---- MODULE Spec2Model ----
(***************************************************************************)
(* Model of packages/cli/src/utils/retry.ts: retryWithBackoff, the bounded *)
(* retry loop with exponential backoff, and removeDirectoryWithRetry, which*)
(* binds it to fs.promises.rm.                                             *)
(*                                                                         *)
(* Every invocation i owns its locals (attempt, lastError) and its         *)
(* parameters; the remaining variables record what an observer of the      *)
(* invocation sees: the operation calls, the rm requests, the values the   *)
(* operation threw, the setTimeout delays and the debug trace records.     *)
(* JavaScript values are strings ("true", "false", "undefined"); objects   *)
(* are functions from their own property names to values.                  *)
(***************************************************************************)
EXTENDS Integers, Sequences, FiniteSets, TLC

VARIABLES
    pc,             \* "idle", "op" (awaiting operation()), "wait" (awaiting the timer), "resolved", "rejected"
    entry,          \* "none", "remove" (removeDirectoryWithRetry), "retry" (retryWithBackoff with an abstract operation)
    options,        \* removeDirectoryWithRetry's options argument
    maxRetries,     \* retryWithBackoff's maxRetries parameter
    initialDelayMs, \* retryWithBackoff's initialDelayMs parameter
    attempt,        \* the loop variable of retryWithBackoff
    lastError,      \* the local lastError of retryWithBackoff
    calls,          \* number of operation() calls made so far
    requests,       \* options objects passed to fs.promises.rm, in order
    thrown,         \* values the operation rejected with, in order
    delays,         \* delays passed to setTimeout, in order
    traces,         \* records passed to debugLogger.debug, in order
    fulfilled,      \* value the operation's promise was fulfilled with
    returned,       \* value the invocation resolved with
    rejectedWith    \* value the invocation rejected with

vars == <<pc, entry, options, maxRetries, initialDelayMs, attempt, lastError,
          calls, requests, thrown, delays, traces, fulfilled, returned, rejectedWith>>

(***************************************************************************)
(* Bounds of the model.                                                    *)
(***************************************************************************)
NumInvocations == 2
MaxRetriesArg == 3
MaxInitialDelayArg == 2

Invocations == 1..NumInvocations

(***************************************************************************)
(* Values.                                                                 *)
(***************************************************************************)
\* Codes a thrown value may carry; "none" stands for a value with no code property.
Codes == {"EBUSY", "ENOTEMPTY", "EPERM", "ENOENT", "none"}

\* A thrown value: kind "Error" is an instance of Error, kind "raw" is any other value.
ThrownValues == [kind : {"Error", "raw"}, code : Codes]

\* The value of lastError before any assignment.
Undefined == [kind |-> "undefined", code |-> "none"]

\* Values an abstract operation may resolve with.
OperationValues == {"v1", "v2"}

\* The async closure of removeDirectoryWithRetry has no return statement.
RmClosureValue == "undefined"

\* Options objects a caller may pass: any subset of the three properties may be present.
OptionFields == {"recursive", "force", "maxRetries"}

FieldValues(f) ==
    IF f = "maxRetries" THEN {"3"} ELSE {"true", "false", "undefined"}

OptionsObjects ==
    UNION { { o \in [D -> {"true", "false", "undefined", "3"}] :
                \A f \in D : o[f] \in FieldValues(f) } : D \in SUBSET OptionFields }

\* Arguments of a direct retryWithBackoff call: at least one attempt is asked for.
MaxRetriesArgs == 1..MaxRetriesArg
InitialDelayArgs == 0..MaxInitialDelayArg

(***************************************************************************)
(* Pure helpers.                                                           *)
(***************************************************************************)
RECURSIVE Pow2(_)
\* Math.pow(2, n) for a non-negative integer n
Pow2(n) == IF n <= 0 THEN 1 ELSE 2 * Pow2(n - 1)

\* { ...a, ...b }: the properties of b win
Spread(a, b) ==
    [f \in (DOMAIN a) \cup (DOMAIN b) |-> IF f \in DOMAIN b THEN b[f] ELSE a[f]]

\* the literal part of the rm request
ForcedFlags == [f \in {"recursive", "force"} |-> "true"]

\* the spread written before the literal flags: { ...options, recursive: true, force: true }
RmRequest_FlagsLast(opts) == Spread(opts, ForcedFlags)

\* { recursive: true, force: true, ...options }
RmRequest(opts) == Spread(ForcedFlags, opts)

\* the instanceof test left out: every thrown value is taken for an Error
InstanceOfError_Anything(e) == TRUE

\* e instanceof Error
InstanceOfError(e) == e.kind = "Error"

\* a classification that retries on any code at all
IsRetryableCode_AnyCode(code) == code # "none"

\* a classification that forgets EPERM
IsRetryableCode_NoEperm(code) == code = "EBUSY" \/ code = "ENOTEMPTY"

\* !(code !== 'EBUSY' && code !== 'ENOTEMPTY' && code !== 'EPERM')
IsRetryableCode(code) == code = "EBUSY" \/ code = "ENOTEMPTY" \/ code = "EPERM"

\* a loop that runs once more: attempt <= maxRetries
LoopContinues_OneMore(a, m) == a <= m

\* a loop that stops one attempt early: attempt < maxRetries - 1
LoopContinues_OneLess(a, m) == a < m - 1

\* the for loop's condition: attempt < maxRetries
LoopContinues(a, m) == a < m

\* the awaited value dropped: await operation(); return;
AwaitReturn_Dropped(v) == "undefined"

\* return await operation(): the awaited value is returned as it is
AwaitReturn(v) == v

\* only the first failure is kept: lastError ??= e
RecordLastError_KeepFirst(old, e) == IF old.kind = "undefined" THEN e ELSE old

\* the assignment left out: lastError is never set
RecordLastError_Dropped(old, e) == old

\* lastError = e
RecordLastError(old, e) == e

\* the delay also taken after the last attempt: attempt < maxRetries
HasAttemptsLeft_AlsoLast(a, m) == a < m

\* the delay never taken: the next attempt starts as soon as the last one failed
HasAttemptsLeft_Never(a, m) == FALSE

\* attempt < maxRetries - 1
HasAttemptsLeft(a, m) == a < m - 1

\* a linear backoff: initialDelayMs * (attempt + 1)
BackoffDelay_Linear(d, a) == d * (a + 1)

\* no backoff: the same delay before every retry
BackoffDelay_Constant(d, a) == d

\* initialDelayMs * Math.pow(2, attempt)
BackoffDelay(d, a) == d * Pow2(a)

\* attempt and lastError declared at module level: every call uses the same pair
Activation_ModuleLevel(i) == 1

\* let lastError / let attempt: each call of retryWithBackoff has its own pair
Activation(i) == i

\* the attempt number written 0-based into the trace
TraceRecord_ZeroBased(a, m, delay, e) ==
    [attempt |-> a, maxRetries |-> m, delay |-> delay, error |-> e]

\* the fields of the debug message: attempt + 1, maxRetries, delay, lastError.message
TraceRecord(a, m, delay, e) ==
    [attempt |-> a + 1, maxRetries |-> m, delay |-> delay, error |-> e]

\* a timer callback that never calls resolve: setTimeout(() => {}, delay)
TimerCallsResolve_Never == FALSE

\* setTimeout(resolve, delay): the timer's callback settles the awaited promise
TimerCallsResolve == TRUE

\* removeDirectoryWithRetry's fixed configuration
RemoveMaxRetries == 5
RemoveInitialDelayMs == 100

(***************************************************************************)
(* Initial state: no invocation has been made.                             *)
(***************************************************************************)
Init ==
    /\ pc = [i \in Invocations |-> "idle"]
    /\ entry = [i \in Invocations |-> "none"]
    /\ options = [i \in Invocations |-> <<>>]
    /\ maxRetries = [i \in Invocations |-> 0]
    /\ initialDelayMs = [i \in Invocations |-> 0]
    /\ attempt = [i \in Invocations |-> 0]
    /\ lastError = [i \in Invocations |-> Undefined]
    /\ calls = [i \in Invocations |-> 0]
    /\ requests = [i \in Invocations |-> <<>>]
    /\ thrown = [i \in Invocations |-> <<>>]
    /\ delays = [i \in Invocations |-> <<>>]
    /\ traces = [i \in Invocations |-> <<>>]
    /\ fulfilled = [i \in Invocations |-> "none"]
    /\ returned = [i \in Invocations |-> "none"]
    /\ rejectedWith = [i \in Invocations |-> Undefined]

(***************************************************************************)
(* The head of the for loop, reached with attempt = a and lastError = le:  *)
(* either the next operation() call is made (for removeDirectoryWithRetry  *)
(* the closure issues the rm request) or the loop ends and lastError is    *)
(* thrown.                                                                 *)
(***************************************************************************)
LoopHead(i, a, m, le, ent, opts) ==
    /\ attempt' = [attempt EXCEPT ![Activation(i)] = a]
    /\ IF LoopContinues(a, m)
       THEN /\ pc' = [pc EXCEPT ![i] = "op"]
            /\ calls' = [calls EXCEPT ![i] = @ + 1]
            /\ requests' = [requests EXCEPT ![i] =
                              IF ent = "remove" THEN Append(@, RmRequest(opts)) ELSE @]
            /\ UNCHANGED rejectedWith
       ELSE /\ pc' = [pc EXCEPT ![i] = "rejected"]
            /\ rejectedWith' = [rejectedWith EXCEPT ![i] = le]
            /\ UNCHANGED <<calls, requests>>

\* Entry to retryWithBackoff: the locals are initialised and the loop head is reached.
Enter(i, ent, opts, m, d) ==
    /\ pc[i] = "idle"
    /\ entry' = [entry EXCEPT ![i] = ent]
    /\ options' = [options EXCEPT ![i] = opts]
    /\ maxRetries' = [maxRetries EXCEPT ![i] = m]
    /\ initialDelayMs' = [initialDelayMs EXCEPT ![i] = d]
    /\ lastError' = [lastError EXCEPT ![Activation(i)] = Undefined]
    /\ LoopHead(i, 0, m, Undefined, ent, opts)
    /\ UNCHANGED <<thrown, delays, traces, fulfilled, returned>>

\* removeDirectoryWithRetry(path, options), the options drawn from O
CallRemove(i, O) ==
    \E opts \in O :
        Enter(i, "remove", opts, RemoveMaxRetries, RemoveInitialDelayMs)

\* removeDirectoryWithRetry(path, options)
RemoveDirectoryWithRetry(i) == CallRemove(i, OptionsObjects)

\* retryWithBackoff(operation, maxRetries, initialDelayMs), the arguments drawn from M and D
CallRetry(i, M, D) ==
    \E m \in M, d \in D :
        Enter(i, "retry", <<>>, m, d)

\* retryWithBackoff(operation, maxRetries, initialDelayMs) with an abstract operation
RetryWithBackoff(i) == CallRetry(i, MaxRetriesArgs, InitialDelayArgs)

\* return await operation(): the operation resolves
OperationResolves(i) ==
    /\ pc[i] = "op"
    /\ \E v \in (IF entry[i] = "remove" THEN {RmClosureValue} ELSE OperationValues) :
          /\ fulfilled' = [fulfilled EXCEPT ![i] = v]
          /\ returned' = [returned EXCEPT ![i] = AwaitReturn(v)]
    /\ pc' = [pc EXCEPT ![i] = "resolved"]
    /\ UNCHANGED <<entry, options, maxRetries, initialDelayMs, attempt, lastError,
                   calls, requests, thrown, delays, traces, rejectedWith>>

\* The operation rejects with e: the catch block.
Catch(i, e) ==
    /\ thrown' = [thrown EXCEPT ![i] = Append(@, e)]
    /\ IF ~InstanceOfError(e)
       THEN \* throw e, before lastError is assigned
            /\ pc' = [pc EXCEPT ![i] = "rejected"]
            /\ rejectedWith' = [rejectedWith EXCEPT ![i] = e]
            /\ UNCHANGED <<lastError, attempt, calls, requests, delays, traces>>
       ELSE /\ lastError' = [lastError EXCEPT ![Activation(i)] = RecordLastError(@, e)]
            /\ IF ~IsRetryableCode(e.code)
               THEN \* throw e
                    /\ pc' = [pc EXCEPT ![i] = "rejected"]
                    /\ rejectedWith' = [rejectedWith EXCEPT ![i] = e]
                    /\ UNCHANGED <<attempt, calls, requests, delays, traces>>
               ELSE IF HasAttemptsLeft(attempt[Activation(i)], maxRetries[i])
               THEN \* log and await the timer
                    LET delay == BackoffDelay(initialDelayMs[i], attempt[Activation(i)]) IN
                    /\ traces' = [traces EXCEPT ![i] =
                                    Append(@, TraceRecord(attempt[Activation(i)], maxRetries[i],
                                                          delay, lastError'[Activation(i)]))]
                    /\ delays' = [delays EXCEPT ![i] = Append(@, delay)]
                    /\ pc' = [pc EXCEPT ![i] = "wait"]
                    /\ UNCHANGED <<attempt, calls, requests, rejectedWith>>
               ELSE \* no delay: attempt++ and back to the loop head
                    /\ LoopHead(i, attempt[Activation(i)] + 1, maxRetries[i],
                                lastError'[Activation(i)], entry[i], options[i])
                    /\ UNCHANGED <<delays, traces>>

\* The operation rejects with a value drawn from T.
Rejects(i, T) ==
    /\ pc[i] = "op"
    /\ \E e \in T : Catch(i, e)
    /\ UNCHANGED <<entry, options, maxRetries, initialDelayMs, fulfilled, returned>>

OperationRejects(i) == Rejects(i, ThrownValues)

\* The timer fires: attempt++ and back to the loop head.
DelayElapses(i) ==
    /\ pc[i] = "wait"
    /\ TimerCallsResolve
    /\ LoopHead(i, attempt[Activation(i)] + 1, maxRetries[i], lastError[Activation(i)],
                entry[i], options[i])
    /\ UNCHANGED <<entry, options, maxRetries, initialDelayMs, lastError,
                   thrown, delays, traces, fulfilled, returned>>

Step(i) ==
    \/ RemoveDirectoryWithRetry(i)
    \/ RetryWithBackoff(i)
    \/ OperationResolves(i)
    \/ OperationRejects(i)
    \/ DelayElapses(i)

\* One invocation, run alone.
Next == Step(1)

Spec == Init /\ [][Next]_vars

(***************************************************************************)
(* The same invocation when every pending promise is eventually settled:   *)
(* the operation's promise by the operation, the delay's by the timer.     *)
(***************************************************************************)
SpecFair ==
    /\ Spec
    /\ WF_vars(OperationResolves(1) \/ OperationRejects(1))
    /\ WF_vars(DelayElapses(1))

(***************************************************************************)
(* Direct retryWithBackoff calls with any maxRetries, zero and negative    *)
(* values included. No caller in the module makes such a call.             *)
(***************************************************************************)
AnyMaxRetriesArgs == (-2)..MaxRetriesArg

RetryWithBackoffAnyMaxRetries(i) == CallRetry(i, AnyMaxRetriesArgs, InitialDelayArgs)

NextAnyMaxRetries ==
    \/ RemoveDirectoryWithRetry(1)
    \/ RetryWithBackoffAnyMaxRetries(1)
    \/ OperationResolves(1)
    \/ OperationRejects(1)
    \/ DelayElapses(1)

SpecAnyMaxRetries == Init /\ [][NextAnyMaxRetries]_vars

(***************************************************************************)
(* Concurrent calls of removeDirectoryWithRetry: the steps of the          *)
(* invocations interleave in any order. The inputs are kept few: the       *)
(* options are absent or set recursive to false, and an rm request         *)
(* succeeds or fails with one of three values.                             *)
(***************************************************************************)
ConcurrentOptions ==
    { o \in OptionsObjects : DOMAIN o \subseteq {"recursive"} /\ \A f \in DOMAIN o : o[f] = "false" }

ConcurrentThrownValues ==
    { [kind |-> "Error", code |-> "EBUSY"],
      [kind |-> "Error", code |-> "ENOENT"],
      [kind |-> "raw", code |-> "EBUSY"] }

RemoveConcurrently(i) == CallRemove(i, ConcurrentOptions)

RmRejects(i) == Rejects(i, ConcurrentThrownValues)

NextConcurrent ==
    \E i \in Invocations :
        \/ RemoveConcurrently(i)
        \/ OperationResolves(i)
        \/ RmRejects(i)
        \/ DelayElapses(i)

SpecConcurrent == Init /\ [][NextConcurrent]_vars

(***************************************************************************)
(* Vocabulary of the properties.                                           *)
(***************************************************************************)
TransientCodes == {"EBUSY", "ENOTEMPTY", "EPERM"}

\* a structured error carrying one of the three transient codes
TransientFailure(e) == e.kind = "Error" /\ e.code \in TransientCodes

AllTransient(s) == \A k \in DOMAIN s : TransientFailure(s[k])

Started(i) == pc[i] # "idle"

Last(s) == s[Len(s)]

(***************************************************************************)
(* C1. Every rm request issued by removeDirectoryWithRetry carries         *)
(* recursive = true and force = true, whatever options the caller passed.  *)
(* This is the claim as written; it does not hold, because the caller's    *)
(* options are spread after the two literal flags.                         *)
(***************************************************************************)
C1_ForcedFlagsAlways ==
    \A i \in Invocations : \A k \in DOMAIN requests[i] :
        /\ requests[i][k]["recursive"] = "true"
        /\ requests[i][k]["force"] = "true"

(***************************************************************************)
(* C1, amended. Every rm request issued by removeDirectoryWithRetry has    *)
(* exactly the properties recursive, force and those of the caller's       *)
(* options; every property the caller supplied carries the caller's value  *)
(* (recursive and force included, also when that value is false or         *)
(* undefined), and recursive and force are true when the caller did not    *)
(* supply them.                                                            *)
(***************************************************************************)
C1_CallerOptionsOverride ==
    \A i \in Invocations : \A k \in DOMAIN requests[i] :
        LET r == requests[i][k]
            o == options[i]
        IN  /\ entry[i] = "remove"
            /\ DOMAIN r = {"recursive", "force"} \cup DOMAIN o
            /\ \A f \in DOMAIN o : r[f] = o[f]
            /\ \A f \in {"recursive", "force"} \ DOMAIN o : r[f] = "true"

\* a second rm request has been issued for a caller who passed recursive = false, force = false
C1_Witness ==
    \E i \in Invocations :
        /\ Len(requests[i]) >= 2
        /\ DOMAIN options[i] = {"recursive", "force"}
        /\ options[i]["recursive"] = "false" /\ options[i]["force"] = "false"
        /\ requests[i][2]["recursive"] = "false" /\ requests[i][2]["force"] = "false"

(***************************************************************************)
(* C2. A failure whose code is not EBUSY, ENOTEMPTY or EPERM (or that has  *)
(* no code) ends the call at once, at any attempt index: it is the last    *)
(* value the operation threw, the call is rejected with it, and the        *)
(* numbers of operation calls and of delays are those reached when it was  *)
(* thrown (k calls, k - 1 delays for the k-th failure).                    *)
(***************************************************************************)
C2_NonTransientRejectsAtOnce ==
    \A i \in Invocations : \A k \in DOMAIN thrown[i] :
        thrown[i][k].code \notin TransientCodes =>
            /\ k = Len(thrown[i])
            /\ pc[i] = "rejected"
            /\ rejectedWith[i] = thrown[i][k]
            /\ calls[i] = k
            /\ Len(delays[i]) = k - 1

\* an error without a code thrown by the third attempt, after two transient failures
C2_Witness ==
    \E i \in Invocations :
        /\ Len(thrown[i]) = 3
        /\ TransientFailure(thrown[i][1]) /\ TransientFailure(thrown[i][2])
        /\ thrown[i][3] = [kind |-> "Error", code |-> "none"]
        /\ pc[i] = "rejected"

(***************************************************************************)
(* C3. When every attempt fails with a transient failure (a structured     *)
(* error with code EBUSY, ENOTEMPTY or EPERM) and maxRetries >= 1, the     *)
(* call makes exactly maxRetries operation calls and then rejects: it      *)
(* never makes more, it is rejected as soon as the maxRetries-th failure   *)
(* arrives and not before (5 rm requests for removeDirectoryWithRetry).    *)
(***************************************************************************)
C3_ExhaustionAfterMaxRetriesCalls ==
    \A i \in Invocations :
        (Started(i) /\ maxRetries[i] >= 1 /\ AllTransient(thrown[i])) =>
            /\ calls[i] <= maxRetries[i]
            /\ (Len(thrown[i]) = maxRetries[i]) <=> (pc[i] = "rejected")
            /\ pc[i] = "rejected" =>
                  /\ calls[i] = maxRetries[i]
                  /\ rejectedWith[i] = Last(thrown[i])
                  /\ entry[i] = "remove" => Len(requests[i]) = 5

\* removeDirectoryWithRetry rejected after five transient failures and five rm requests
C3_Witness ==
    \E i \in Invocations :
        /\ entry[i] = "remove" /\ pc[i] = "rejected"
        /\ AllTransient(thrown[i]) /\ Len(thrown[i]) = 5 /\ Len(requests[i]) = 5
        /\ thrown[i][5].code = "EPERM"

(***************************************************************************)
(* C4. When the operation fails N times with transient failures            *)
(* (0 <= N < maxRetries) the call is still going: it is not rejected; and  *)
(* when the operation then succeeds the call has made exactly N + 1        *)
(* operation calls and is resolved with the value of that attempt. A       *)
(* resolved call has made exactly N + 1 calls, so none follows the         *)
(* success.                                                                *)
(***************************************************************************)
C4_SuccessAfterNTransientFailures ==
    \A i \in Invocations :
        /\ (Started(i) /\ AllTransient(thrown[i]) /\ Len(thrown[i]) < maxRetries[i]) =>
              /\ pc[i] \in {"op", "wait", "resolved"}
              /\ fulfilled[i] # "none" => pc[i] = "resolved"
        /\ pc[i] = "resolved" =>
              /\ AllTransient(thrown[i]) /\ Len(thrown[i]) < maxRetries[i]
              /\ calls[i] = Len(thrown[i]) + 1
              /\ returned[i] = fulfilled[i]
              /\ fulfilled[i] # "none"

\* a direct call with maxRetries = 3 resolved with v2 on its third attempt
C4_Witness ==
    \E i \in Invocations :
        /\ entry[i] = "retry" /\ maxRetries[i] = 3
        /\ pc[i] = "resolved" /\ Len(thrown[i]) = 2 /\ calls[i] = 3
        /\ returned[i] = "v2"

(***************************************************************************)
(* C5. When the operation succeeds on its first call the call has made     *)
(* exactly one operation call, returns its result and has requested no     *)
(* delay; nor is any delay requested before the first attempt completes.   *)
(***************************************************************************)
C5_FirstCallSuccess ==
    \A i \in Invocations :
        /\ (Started(i) /\ thrown[i] = <<>>) => delays[i] = <<>>
        /\ (fulfilled[i] # "none" /\ thrown[i] = <<>>) =>
              /\ pc[i] = "resolved"
              /\ calls[i] = 1
              /\ returned[i] = fulfilled[i]
              /\ delays[i] = <<>>

\* a direct call resolved with v1 by its first attempt
C5_Witness ==
    \E i \in Invocations :
        /\ entry[i] = "retry" /\ pc[i] = "resolved"
        /\ calls[i] = 1 /\ thrown[i] = <<>> /\ returned[i] = "v1"

(***************************************************************************)
(* C6. The k-th delay of a call, the one between attempt k and attempt     *)
(* k + 1, is initialDelayMs * 2^(k-1): 100, 200, 400, 800 for              *)
(* removeDirectoryWithRetry. A delay is pending exactly when as many       *)
(* delays as attempts have been made, otherwise there is one delay fewer   *)
(* than attempts; there are at most maxRetries - 1 delays, so none follows *)
(* the maxRetries-th attempt.                                              *)
(***************************************************************************)
C6_DefaultDelays == <<100, 200, 400, 800>>

C6_BackoffDelays ==
    \A i \in Invocations :
        /\ \A k \in DOMAIN delays[i] : delays[i][k] = initialDelayMs[i] * 2^(k - 1)
        /\ entry[i] = "remove" => delays[i] = SubSeq(C6_DefaultDelays, 1, Len(delays[i]))
        /\ pc[i] = "wait" => Len(delays[i]) = calls[i] /\ calls[i] < maxRetries[i]
        /\ pc[i] \in {"op", "resolved"} => Len(delays[i]) = calls[i] - 1
        /\ (pc[i] = "rejected" /\ calls[i] > 0) => Len(delays[i]) = calls[i] - 1
        /\ calls[i] = 0 => delays[i] = <<>>

\* removeDirectoryWithRetry rejected after its fifth attempt, having waited 100, 200, 400 and 800 ms
C6_Witness ==
    \E i \in Invocations :
        /\ entry[i] = "remove" /\ pc[i] = "rejected" /\ calls[i] = 5
        /\ AllTransient(thrown[i])
        /\ delays[i] = C6_DefaultDelays

(***************************************************************************)
(* A failure is treated as transient when the call goes on after it: the   *)
(* k-th failure is not the one the call was rejected on.                   *)
(***************************************************************************)
TreatedAsTransient(i, k) == ~(pc[i] = "rejected" /\ k = Len(thrown[i]))

(***************************************************************************)
(* C7. A failure after which attempts remain is treated as transient if    *)
(* and only if its code is EBUSY, ENOTEMPTY or EPERM, and a failure with   *)
(* another code or none is never followed by another attempt. This is the  *)
(* claim as written; it does not hold for a thrown value that is not an    *)
(* Error and carries one of the three codes.                               *)
(***************************************************************************)
C7_TransientIffCode ==
    \A i \in Invocations : \A k \in DOMAIN thrown[i] :
        /\ k < maxRetries[i] =>
              (TreatedAsTransient(i, k) <=> thrown[i][k].code \in TransientCodes)
        /\ thrown[i][k].code \notin TransientCodes => ~TreatedAsTransient(i, k)

(***************************************************************************)
(* C7, amended. A failure after which attempts remain is treated as        *)
(* transient if and only if it is an Error whose code is EBUSY, ENOTEMPTY  *)
(* or EPERM; any other failure (another code, no code, or not an Error) is *)
(* never followed by another attempt.                                      *)
(***************************************************************************)
C7_TransientIffErrorWithCode ==
    \A i \in Invocations : \A k \in DOMAIN thrown[i] :
        /\ k < maxRetries[i] =>
              (TreatedAsTransient(i, k) <=> TransientFailure(thrown[i][k]))
        /\ ~TransientFailure(thrown[i][k]) => ~TreatedAsTransient(i, k)

\* an Error with code EPERM was followed by a second attempt, and the call was rejected
\* on that attempt's value with code EPERM that is not an Error, although an attempt remained
C7_Witness ==
    \E i \in Invocations :
        /\ Len(thrown[i]) = 2 /\ maxRetries[i] >= 3
        /\ thrown[i][1] = [kind |-> "Error", code |-> "EPERM"]
        /\ thrown[i][2] = [kind |-> "raw", code |-> "EPERM"]
        /\ pc[i] = "rejected" /\ calls[i] = 2

(***************************************************************************)
(* C8. Every call that has ended is either resolved with the value of the  *)
(* successful attempt or rejected with exactly the value the most recent   *)
(* attempt threw (the last one when the attempts threw different values).  *)
(***************************************************************************)
C8_NeverSwallows ==
    \A i \in Invocations :
        /\ pc[i] = "resolved" => (fulfilled[i] # "none" /\ returned[i] = fulfilled[i])
        /\ pc[i] = "rejected" =>
              (thrown[i] # <<>> /\ rejectedWith[i] = Last(thrown[i]))

\* retries exhausted after EBUSY then EPERM: the call is rejected with the EPERM error
C8_Witness ==
    \E i \in Invocations :
        /\ maxRetries[i] = 2 /\ pc[i] = "rejected"
        /\ thrown[i] = << [kind |-> "Error", code |-> "EBUSY"],
                          [kind |-> "Error", code |-> "EPERM"] >>
        /\ rejectedWith[i] = [kind |-> "Error", code |-> "EPERM"]

(***************************************************************************)
(* The Error the operation threw most recently before its k-th failure:    *)
(* what lastError holds when the k-th failure arrives.                     *)
(***************************************************************************)
LastErrorBefore(i, k) == IF k = 1 THEN Undefined ELSE thrown[i][k - 1]

(***************************************************************************)
(* C9. A thrown value that is not an Error, whatever its code, ends the    *)
(* call at once: the call is rejected with it, lastError still holds what  *)
(* it held before (the previous failure, or undefined), and no delay and   *)
(* no attempt follows (k calls, k - 1 delays for the k-th failure).        *)
(***************************************************************************)
C9_RawValueRethrown ==
    \A i \in Invocations : \A k \in DOMAIN thrown[i] :
        thrown[i][k].kind = "raw" =>
            /\ k = Len(thrown[i])
            /\ pc[i] = "rejected"
            /\ rejectedWith[i] = thrown[i][k]
            /\ lastError[i] = LastErrorBefore(i, k)
            /\ lastError[i] # thrown[i][k]
            /\ calls[i] = k
            /\ Len(delays[i]) = k - 1
            /\ Len(traces[i]) = k - 1

\* the second attempt threw a value with code EBUSY that is not an Error: lastError is still the first failure
C9_Witness ==
    \E i \in Invocations :
        /\ Len(thrown[i]) = 2 /\ maxRetries[i] >= 3
        /\ thrown[i][1] = [kind |-> "Error", code |-> "ENOTEMPTY"]
        /\ thrown[i][2] = [kind |-> "raw", code |-> "EBUSY"]
        /\ lastError[i] = thrown[i][1]
        /\ pc[i] = "rejected"

(***************************************************************************)
(* The control state of the retrier, in the words of its state machine.    *)
(***************************************************************************)
ControlState(p) ==
    CASE p = "idle" -> "NotCalled"
      [] p = "op" -> "Attempting"
      [] p = "wait" -> "Waiting"
      [] p = "resolved" -> "Succeeded"
      [] p = "rejected" -> "Failed"

\* The step of invocation i is one the state machine allows, for the reason it gives.
C10_AllowedStep(i) ==
    LET s == ControlState(pc[i])
        t == ControlState(pc'[i])
        failed == Len(thrown'[i]) = Len(thrown[i]) + 1
        e == Last(thrown'[i])
        transient == e.kind = "Error" /\ e.code \in TransientCodes
        remaining == Len(thrown'[i]) < maxRetries[i]
    IN  \/ s = t /\ s # "Attempting"
        \/ s = "NotCalled" /\ t = "Attempting"
        \/ s = "Attempting" /\ t = "Succeeded" /\ ~failed /\ fulfilled'[i] # "none"
        \/ s = "Attempting" /\ t = "Waiting" /\ failed /\ transient /\ remaining
        \/ s = "Waiting" /\ t = "Attempting" /\ ~failed /\ calls'[i] = calls[i] + 1
        \/ s = "Attempting" /\ t = "Failed" /\ failed /\ (~transient \/ ~remaining)

(***************************************************************************)
(* C10. A call starts in Attempting and its control state changes only by  *)
(* Attempting -> Succeeded on success, Attempting -> Waiting on a          *)
(* transient failure with attempts remaining, Waiting -> Attempting when   *)
(* the delay elapses, and Attempting -> Failed on a non-transient failure  *)
(* or on a transient failure with no attempts remaining; Succeeded and     *)
(* Failed are never left.                                                  *)
(***************************************************************************)
C10_StateMachine ==
    [][\A i \in Invocations : C10_AllowedStep(i)]_vars

\* a call that went Attempting, Waiting, Attempting, Failed: its last attempt failed with no attempts remaining
C10_Witness ==
    \E i \in Invocations :
        /\ maxRetries[i] = 2 /\ pc[i] = "rejected"
        /\ calls[i] = 2 /\ Len(delays[i]) = 1
        /\ AllTransient(thrown[i]) /\ Len(thrown[i]) = 2

(***************************************************************************)
(* The attempts of invocation i that have been started and have not yet    *)
(* completed: every call is followed by one fulfilment or one rejection.   *)
(***************************************************************************)
Completed(i) == Len(thrown[i]) + (IF fulfilled[i] # "none" THEN 1 ELSE 0)

InFlight(i) == calls[i] - Completed(i)

\* A step of invocation i that starts an attempt other than the first starts it
\* from a pending delay, scheduled after the failure of the attempt before it.
C11_StartsAfterDelay(i) ==
    (calls'[i] # calls[i] /\ calls[i] >= 1) =>
        /\ calls'[i] = calls[i] + 1
        /\ pc[i] = "wait"
        /\ InFlight(i) = 0
        /\ fulfilled[i] = "none"
        /\ Len(thrown[i]) = calls[i]
        /\ Len(delays[i]) = calls[i]
        /\ delays'[i] = delays[i]

(***************************************************************************)
(* C11. Within one invocation the attempts are strictly sequential: at     *)
(* most one attempt is in flight at any time (exactly one while the        *)
(* operation is awaited, none otherwise), and attempt k + 1 starts only    *)
(* when attempt k has completed with a failure and the delay scheduled     *)
(* after that failure has elapsed.                                         *)
(***************************************************************************)
C11_SequentialAttempts ==
    /\ [](\A i \in Invocations :
             /\ InFlight(i) \in {0, 1}
             /\ InFlight(i) = 1 <=> pc[i] = "op")
    /\ [][\A i \in Invocations : C11_StartsAfterDelay(i)]_vars

\* the third attempt is in flight, after two failures and two delays
C11_Witness ==
    \E i \in Invocations :
        /\ pc[i] = "op" /\ calls[i] = 3 /\ InFlight(i) = 1
        /\ Len(thrown[i]) = 2 /\ Len(delays[i]) = 2

(***************************************************************************)
(* The transient failures among the first n values the operation threw.    *)
(***************************************************************************)
RECURSIVE TransientCount(_, _)
TransientCount(s, n) ==
    IF n = 0 THEN 0
    ELSE TransientCount(s, n - 1) + (IF TransientFailure(s[n]) THEN 1 ELSE 0)

\* A step changes the attempt counter of invocation i only by adding one, and only
\* after a transient failure: when its delay elapses, or at once after the last attempt.
C12_CounterStep(i) ==
    attempt'[i] # attempt[i] =>
        /\ attempt'[i] = attempt[i] + 1
        /\ thrown'[i] # <<>> /\ TransientFailure(Last(thrown'[i]))
        /\ \/ pc[i] = "wait" /\ thrown'[i] = thrown[i]
           \/ pc[i] = "op" /\ Len(thrown'[i]) = Len(thrown[i]) + 1

(***************************************************************************)
(* C12. A call never makes more than maxRetries operation calls (at most   *)
(* 5 rm requests per removeDirectoryWithRetry call); the attempt counter   *)
(* stays within 0..maxRetries and goes up by exactly one per transient     *)
(* failed attempt: it equals the number of transient failures so far, less *)
(* the one whose delay is still pending.                                   *)
(***************************************************************************)
C12_BoundedAttempts ==
    /\ [](\A i \in Invocations :
             Started(i) =>
                 /\ calls[i] <= maxRetries[i]
                 /\ entry[i] = "remove" => (calls[i] <= 5 /\ Len(requests[i]) = calls[i])
                 /\ attempt[i] \in 0..maxRetries[i]
                 /\ attempt[i] = TransientCount(thrown[i], Len(thrown[i]))
                                   - (IF pc[i] = "wait" THEN 1 ELSE 0))
    /\ [][\A i \in Invocations : C12_CounterStep(i)]_vars

\* removeDirectoryWithRetry gave up after its fifth rm request: the counter has reached 5
C12_Witness ==
    \E i \in Invocations :
        /\ entry[i] = "remove" /\ pc[i] = "rejected"
        /\ Len(requests[i]) = 5 /\ attempt[i] = 5 /\ attempt[i] = maxRetries[i]

Terminal(i) == pc[i] \in {"resolved", "rejected"}

(***************************************************************************)
(* C13. When every awaited operation eventually settles and every          *)
(* scheduled delay eventually elapses, every call that has been made       *)
(* eventually ends, resolved or rejected, whatever the operation does.     *)
(***************************************************************************)
C13_EventuallyTerminal ==
    \A i \in Invocations : Started(i) ~> Terminal(i)

\* a call that ended only at its last chance: success of the fifth rm request, after four delays
C13_Witness ==
    \E i \in Invocations :
        /\ entry[i] = "remove" /\ pc[i] = "resolved"
        /\ calls[i] = 5 /\ Len(delays[i]) = 4 /\ Len(thrown[i]) = 4

(***************************************************************************)
(* What one invocation would show had it run alone, computed from its own  *)
(* arguments and from what its own operation attempts did: m and d are its *)
(* maxRetries and initialDelayMs, t the values its operation threw, f the  *)
(* value its operation was fulfilled with ("none" so far), waiting whether *)
(* its own timer is pending.                                               *)
(***************************************************************************)
Min(a, b) == IF a <= b THEN a ELSE b

RECURSIVE AloneLastError(_, _)
\* the last Error among the first n thrown values
AloneLastError(t, n) ==
    IF n = 0 THEN Undefined
    ELSE IF t[n].kind = "Error" THEN t[n] ELSE AloneLastError(t, n - 1)

AloneEnded(m, t, f) ==
    \/ f # "none"
    \/ t # <<>> /\ (~TransientFailure(Last(t)) \/ Len(t) >= m)

AloneOutcome(m, t, f) ==
    IF f # "none" THEN [pc |-> "resolved", returned |-> f, rejectedWith |-> Undefined]
    ELSE IF AloneEnded(m, t, f)
         THEN [pc |-> "rejected", returned |-> "none", rejectedWith |-> Last(t)]
         ELSE [pc |-> "pending", returned |-> "none", rejectedWith |-> Undefined]

AloneDelays(m, d, t) ==
    [k \in 1..Min(TransientCount(t, Len(t)), m - 1) |-> d * 2^(k - 1)]

AloneCalls(m, t, f, waiting) ==
    IF f # "none" THEN Len(t) + 1
    ELSE IF AloneEnded(m, t, f) \/ waiting THEN Len(t)
    ELSE Len(t) + 1

AloneAttempt(t, waiting) ==
    TransientCount(t, Len(t)) - (IF waiting THEN 1 ELSE 0)

\* Invocation i is as it would be had it run alone.
C14_AsAlone(i) ==
    LET m == maxRetries[i]
        d == initialDelayMs[i]
        t == thrown[i]
        f == fulfilled[i]
        waiting == pc[i] = "wait"
        out == AloneOutcome(m, t, f)
    IN  /\ attempt[i] = AloneAttempt(t, waiting)
        /\ lastError[i] = AloneLastError(t, Len(t))
        /\ calls[i] = AloneCalls(m, t, f, waiting)
        /\ entry[i] = "remove" => Len(requests[i]) = calls[i]
        /\ \A k \in DOMAIN requests[i] : requests[i][k] = Spread(ForcedFlags, options[i])
        /\ delays[i] = AloneDelays(m, d, t)
        /\ IF out.pc = "pending" THEN pc[i] \in {"op", "wait"} ELSE pc[i] = out.pc
        /\ returned[i] = out.returned
        /\ rejectedWith[i] = out.rejectedWith

\* everything that belongs to invocation i
C14_Own(i) ==
    <<pc[i], entry[i], options[i], maxRetries[i], initialDelayMs[i], attempt[i],
      lastError[i], calls[i], requests[i], thrown[i], delays[i], traces[i],
      fulfilled[i], returned[i], rejectedWith[i]>>

(***************************************************************************)
(* C14. Concurrent invocations share no mutable state. However the steps   *)
(* of two invocations interleave, each one's attempt counter, last-failure *)
(* slot, operation calls, delays and outcome are those it would have had   *)
(* alone (a function of its own arguments and of the results of its own    *)
(* operation attempts), and no step of one invocation changes anything     *)
(* that belongs to another.                                                *)
(***************************************************************************)
C14_NoSharedState ==
    /\ [](\A i \in Invocations : Started(i) => C14_AsAlone(i))
    /\ [][\A i, j \in Invocations :
             (i # j /\ C14_Own(i)' # C14_Own(i)) => C14_Own(j)' = C14_Own(j)]_vars

\* two calls under way at once: the first awaits its fourth rm request, the second
\* is rejected after a single one
C14_Witness ==
    /\ pc[1] = "op" /\ calls[1] = 4 /\ attempt[1] = 3
    /\ lastError[1] = [kind |-> "Error", code |-> "EBUSY"]
    /\ pc[2] = "rejected" /\ calls[2] = 1 /\ attempt[2] = 0
    /\ lastError[2] = [kind |-> "Error", code |-> "ENOENT"]

(***************************************************************************)
(* C15. Each retry emits exactly one trace record and the first attempt    *)
(* emits none: there are always as many records as delays, none while      *)
(* nothing has failed, and one fewer than operation calls when the call    *)
(* has ended. The k-th record carries k (the 1-based number of the attempt *)
(* that just failed), maxRetries, the k-th delay and the failure it        *)
(* reports. The attempts, the delays and the outcome are a function of the *)
(* arguments and of the operation's results alone, so the records do not   *)
(* enter into them.                                                        *)
(***************************************************************************)
C15_OneTracePerRetry ==
    \A i \in Invocations :
        Started(i) =>
            /\ Len(traces[i]) = Len(delays[i])
            /\ thrown[i] = <<>> => traces[i] = <<>>
            /\ Terminal(i) => Len(traces[i]) = calls[i] - 1
            /\ \A k \in DOMAIN traces[i] :
                  /\ traces[i][k].attempt = k
                  /\ traces[i][k].maxRetries = maxRetries[i]
                  /\ traces[i][k].delay = initialDelayMs[i] * 2^(k - 1)
                  /\ traces[i][k].delay = delays[i][k]
                  /\ traces[i][k].error = thrown[i][k]
            /\ calls[i] = AloneCalls(maxRetries[i], thrown[i], fulfilled[i], pc[i] = "wait")
            /\ delays[i] = AloneDelays(maxRetries[i], initialDelayMs[i], thrown[i])
            /\ Terminal(i) =>
                  pc[i] = AloneOutcome(maxRetries[i], thrown[i], fulfilled[i]).pc

\* a direct call with maxRetries = 3 ended after three calls and two records, the
\* second reporting attempt 2 of 3 and the failure with code ENOTEMPTY
C15_Witness ==
    \E i \in Invocations :
        /\ entry[i] = "retry" /\ maxRetries[i] = 3 /\ Terminal(i)
        /\ calls[i] = 3 /\ Len(traces[i]) = 2
        /\ traces[i][2].attempt = 2 /\ traces[i][2].maxRetries = 3
        /\ traces[i][2].error.code = "ENOTEMPTY"

(***************************************************************************)
(* C16. The last-failure slot holds one value at a time and is not         *)
(* undefined in any state in which at least one attempt of the call has    *)
(* failed, the state in which the call re-raises included. This is the     *)
(* claim as written; it does not hold when the only failures so far are    *)
(* thrown values that are not Errors, which are re-raised unrecorded.      *)
(***************************************************************************)
C16_RecordedOnceFailed ==
    \A i \in Invocations :
        /\ lastError[i] \in ThrownValues \cup {Undefined}
        /\ thrown[i] # <<>> => lastError[i] # Undefined

(***************************************************************************)
(* C16, amended. The last-failure slot holds one value at a time and is    *)
(* not undefined in any state in which at least one attempt of the call    *)
(* has failed with an Error, the state in which the call re-raises         *)
(* included: it holds the Error thrown most recently. It is undefined as   *)
(* long as no attempt has failed with an Error.                            *)
(***************************************************************************)
C16_RecordedOnceFailedWithError ==
    \A i \in Invocations :
        /\ lastError[i] \in ThrownValues \cup {Undefined}
        /\ (\E k \in DOMAIN thrown[i] : thrown[i][k].kind = "Error") =>
              /\ lastError[i] # Undefined
              /\ lastError[i] = AloneLastError(thrown[i], Len(thrown[i]))
        /\ (\A k \in DOMAIN thrown[i] : thrown[i][k].kind # "Error") =>
              lastError[i] = Undefined

\* the call re-raises its second failure, an Error without a code, and the slot holds it
C16_Witness ==
    \E i \in Invocations :
        /\ pc[i] = "rejected" /\ Len(thrown[i]) = 2
        /\ thrown[i][1] = [kind |-> "Error", code |-> "EBUSY"]
        /\ thrown[i][2] = [kind |-> "Error", code |-> "none"]
        /\ lastError[i] = thrown[i][2]

(***************************************************************************)
(* C17. A retryWithBackoff call with maxRetries <= 0 never invokes the     *)
(* operation, requests no delay and emits no trace, and is rejected with   *)
(* the undefined value lastError was declared with, not with a value the   *)
(* operation threw. removeDirectoryWithRetry never makes such a call: its  *)
(* maxRetries is 5 and its first rm request is always issued.              *)
(***************************************************************************)
C17_NoAttemptsRejectsUndefined ==
    \A i \in Invocations :
        Started(i) =>
            /\ maxRetries[i] <= 0 =>
                  /\ pc[i] = "rejected"
                  /\ calls[i] = 0 /\ requests[i] = <<>> /\ thrown[i] = <<>>
                  /\ delays[i] = <<>> /\ traces[i] = <<>>
                  /\ fulfilled[i] = "none"
                  /\ rejectedWith[i] = Undefined
                  /\ rejectedWith[i] \notin ThrownValues
                  /\ lastError[i] = Undefined
            /\ entry[i] = "remove" =>
                  /\ maxRetries[i] = 5
                  /\ calls[i] >= 1 /\ Len(requests[i]) >= 1

\* a direct call with maxRetries = -1, rejected with undefined without any operation call
C17_Witness ==
    \E i \in Invocations :
        /\ entry[i] = "retry" /\ maxRetries[i] = -1
        /\ pc[i] = "rejected" /\ calls[i] = 0 /\ rejectedWith[i] = Undefined

(***************************************************************************)
(* The sum of the first n delays.                                          *)
(***************************************************************************)
RECURSIVE TotalWait(_, _)
TotalWait(s, n) == IF n = 0 THEN 0 ELSE TotalWait(s, n - 1) + s[n]

(***************************************************************************)
(* C18. After k delays a call has waited initialDelayMs * (2^k - 1) in     *)
(* all, and each delay is exactly double the one before it. For            *)
(* removeDirectoryWithRetry the total is 0, 100, 300, 700 or 1500 ms,      *)
(* never more than 1500 ms, and the delays are strictly increasing (as     *)
(* they are for every call with initialDelayMs > 0).                       *)
(***************************************************************************)
C18_CumulativeWait ==
    \A i \in Invocations :
        LET k == Len(delays[i])
            total == TotalWait(delays[i], k)
        IN  /\ total = initialDelayMs[i] * (2^k - 1)
            /\ \A j \in 1..(k - 1) : delays[i][j + 1] = 2 * delays[i][j]
            /\ (entry[i] = "remove" \/ initialDelayMs[i] > 0) =>
                  \A j \in 1..(k - 1) : delays[i][j] < delays[i][j + 1]
            /\ entry[i] = "remove" =>
                  /\ total \in {0, 100, 300, 700, 1500}
                  /\ total <= 1500
                  /\ k <= 4

\* removeDirectoryWithRetry has waited 700 ms in all and awaits its fourth rm request
C18_Witness ==
    \E i \in Invocations :
        /\ entry[i] = "remove" /\ pc[i] = "op" /\ calls[i] = 4
        /\ Len(delays[i]) = 3 /\ TotalWait(delays[i], 3) = 700

====
